---- MODULE Spec2Model ----
(***************************************************************************)
(* The DNG opcode-list decoder of rawler/src/imgop/dngopcode.rs as a state *)
(* machine: decode_opcode_list is the loop (one action per step of it),    *)
(* the fourteen payload decoders are operators over the input buffer.      *)
(*                                                                         *)
(* Target assumptions stated once: usize is 64 bits wide (so `degree + 1`  *)
(* and `as usize` never lose bits) and the allocator grants every          *)
(* `vec![0; len]`; u32 arithmetic is done as the build does it, which is   *)
(* the variable overflow_checks (panic when on, wrap modulo 2^32 when off).*)
(***************************************************************************)
EXTENDS Integers, Sequences, FiniteSets, TLC

VARIABLES
  buf,              \* opcode_list: the input bytes (never written)
  overflow_checks,  \* the build: TRUE = overflow checks on (dev profile), FALSE = wrapping (release)
  pc,               \* position in decode_opcode_list: "count", "loop", "match", "done"
  pos,              \* cur.position(), a u64
  count,            \* the entry count read at line 425
  i,                \* iterations of `for _ in 0..count` completed or begun
  op_id_code,       \* header fields of the entry being decoded (lines 427..431)
  op_flags,
  op_len,
  pos_start,
  ops,              \* the Vec<DngOpcode> being built
  outcome,          \* "running", "Ok", "UnexpectedEof", "InvalidOpcodeSize", "OverflowPanic"
  returned,         \* what the caller receives: the records of Ok(ops), <<>> otherwise
  hist,             \* history: one record per header read (offset, raw header fields)
  nelems,           \* history: array elements read by payload decoders so far
  gen,              \* history: how the input buffer was put together
  call,             \* which call of decode_opcode_list this is: 1, or 2 after a first one
  first,            \* history: what the first call returned, once a second one is made
  input,            \* crop: the row-major input slice (never written)
  dim,              \* crop: the input's dimensions [w, h]
  area,             \* crop: the rectangle [p |-> [x, y], d |-> [w, h]]
  output            \* crop: [st, v, given]: "idle", or "ok" with the Vec returned, or "panic"

vars == <<buf, overflow_checks, pc, pos, count, i, op_id_code, op_flags, op_len,
          pos_start, ops, outcome, returned, hist, nelems, gen,
          call, first, input, dim, area, output>>

\* what a step of one decode_opcode_list call leaves alone
callvars == <<call, first, input, dim, area, output>>

-----------------------------------------------------------------------------
(* Unsigned integers of any width: little-endian base-256 digits, no high  *)
(* zero digit.  u32 and u64 values of the program are kept in this form     *)
(* because 2^32 - 1 does not fit the model checker's native integers.      *)

Min(a, b) == IF a < b THEN a ELSE b

RECURSIVE Norm(_)
(* A parameter and a LET definition stand for their expression, computed   *)
(* anew wherever they are used; a bound variable stands for a value.       *)
(* The({F(x) : x \in {e}}) is F of the value of e, e computed once.         *)
The(S) == CHOOSE x \in S : TRUE

Norm(d) == IF d = <<>> THEN <<>>
           ELSE IF d[Len(d)] = 0 THEN Norm(SubSeq(d, 1, Len(d) - 1)) ELSE d

RECURSIVE W(_)
W(n) == IF n = 0 THEN <<>> ELSE <<n % 256>> \o W(n \div 256)

Digit(d, k) == IF k <= Len(d) THEN d[k] ELSE 0

RECURSIVE ToNat(_)
ToNat(d) == IF d = <<>> THEN 0 ELSE d[1] + 256 * ToNat(Tail(d))

RECURSIVE AddFrom(_, _, _, _)
AddFrom(a, b, k, c) ==
  IF k > Len(a) /\ k > Len(b) THEN (IF c = 0 THEN <<>> ELSE <<c>>)
  ELSE LET s == Digit(a, k) + Digit(b, k) + c
       IN <<s % 256>> \o AddFrom(a, b, k + 1, s \div 256)

WAdd(a, b) == The({Norm(AddFrom(x, y, 1, 0)) : x \in {a}, y \in {b}})

RECURSIVE MulDigit(_, _, _, _)
MulDigit(a, m, k, c) ==
  IF k > Len(a) THEN (IF c = 0 THEN <<>> ELSE <<c>>)
  ELSE LET s == a[k] * m + c
       IN <<s % 256>> \o MulDigit(a, m, k + 1, s \div 256)

RECURSIVE WMul(_, _)
WMul(a, b) ==
  IF a = <<>> THEN <<>>
  ELSE The({WAdd(Norm(MulDigit(y, x[1], 1, 0)), Norm(<<0>> \o WMul(Tail(x), y)))
            : x \in {a}, y \in {b}})

RECURSIVE LessFrom(_, _, _)
LessFrom(a, b, k) == IF k = 0 THEN FALSE
                     ELSE IF a[k] # b[k] THEN a[k] < b[k] ELSE LessFrom(a, b, k - 1)

WLess(a, b) ==
  The({IF Len(x) # Len(y) THEN Len(x) < Len(y) ELSE LessFrom(x, y, Len(x))
       : x \in {a}, y \in {b}})
WLeq(a, b) == a = b \/ WLess(a, b)

Fits32(d) == Len(d) <= 4
Wrap32(d) == Norm(SubSeq(d, 1, Min(Len(d), 4)))

RECURSIVE Reverse(_)
Reverse(s) == IF s = <<>> THEN <<>> ELSE Reverse(Tail(s)) \o <<Head(s)>>

\* byteorder's BigEndian: the first byte is the most significant digit
FromBE(bytes) == The({Norm(d) : d \in {Reverse(bytes)}})
ToBE(d, width) == [k \in 1..width |-> Digit(d, width + 1 - k)]

-----------------------------------------------------------------------------
(* Cursor<&[u8]> reads.  A read result is [ok, v, pos, n]: ok = FALSE is   *)
(* io::ErrorKind::UnexpectedEof, v the value, pos the position after the   *)
(* read, n the number of array elements it read.                           *)

NoVal == <<>>
Fail(p) == [ok |-> FALSE, v |-> NoVal, pos |-> p, n |-> 0]
Done(v, p, n) == [ok |-> TRUE, v |-> v, pos |-> p, n |-> n]

Avail(p, need) == The({WLeq(end, W(Len(buf))) : end \in {WAdd(p, need)}})
Bytes(p, width) == The({SubSeq(buf, at + 1, at + width) : at \in {ToNat(p)}})

\* a read that takes the bytes missing at the end of the buffer as zeros
read_exact_padded(p, width) ==
  IF Avail(p, W(width)) THEN Done(FromBE(Bytes(p, width)), WAdd(p, W(width)), 0)
  ELSE Done(W(0), WAdd(p, W(width)), 0)

read_exact(p, width) ==
  IF Avail(p, W(width)) THEN Done(FromBE(Bytes(p, width)), WAdd(p, W(width)), 0) ELSE Fail(p)

read_u32(p) == read_exact(p, 4)
read_f64(p) == read_exact(p, 8)

\* a run of reads of the given widths, each propagating its error with `?`
RECURSIVE ReadPrims(_, _, _)
ReadPrimsNext(p, widths, acc, r) ==
  IF r.ok THEN ReadPrims(r.pos, Tail(widths), Append(acc, r.v)) ELSE Fail(p)
ReadPrims(p, widths, acc) ==
  IF widths = <<>> THEN Done(acc, p, 0)
  ELSE The({ReadPrimsNext(q, ws, a, r)
            : q \in {p}, ws \in {widths}, a \in {acc}, r \in {read_exact(p, Head(widths))}})

\* read_u16_into / read_f32_into / read_f64_into on a vector of len elements:
\* one read_exact of len * width bytes, then the conversion of each element
read_bytes_into(p, len, width, size) ==
  IF Avail(p, size)
  THEN Done([k \in 1..ToNat(len) |-> FromBE(Bytes(WAdd(p, W((k - 1) * width)), width))],
            WAdd(p, size), ToNat(len))
  ELSE Fail(p)
read_into(p, len, width) ==
  The({read_bytes_into(p, len, width, size) : size \in {WMul(len, W(width))}})

-----------------------------------------------------------------------------
(* The payload schemas.  A decoder result is [st, v, pos, n]: st is "ok",  *)
(* "eof" (an UnexpectedEof propagated by `?`) or "overflow" (an arithmetic *)
(* overflow panic of a build with overflow checks).                        *)

Eof(p, n) == [st |-> "eof", v |-> NoVal, pos |-> p, n |-> n]
Good(v, p, n) == [st |-> "ok", v |-> v, pos |-> p, n |-> n]
Panic(p, n) == [st |-> "overflow", v |-> NoVal, pos |-> p, n |-> n]

\* the two bits taken in the other order
DngOpcodeFlags_decode_swapped(v) ==
  [optional |-> (Digit(v, 1) \div 2) % 2 > 0,
   preview_skip |-> Digit(v, 1) % 2 > 0]

DngOpcodeFlags_decode(v) ==
  [optional |-> Digit(v, 1) % 2 > 0,
   preview_skip |-> (Digit(v, 1) \div 2) % 2 > 0]

DngOpcodeRegion_1(r) ==
  IF ~r.ok THEN Fail(r.pos)
  ELSE Done([top |-> r.v[1], left |-> r.v[2], bottom |-> r.v[3], right |-> r.v[4],
             plane |-> r.v[5], planes |-> r.v[6], row_pitch |-> r.v[7],
             col_pitch |-> r.v[8]], r.pos, 0)
DngOpcodeRegion_decode(p) ==
  The({DngOpcodeRegion_1(res)
       : res \in {ReadPrims(p, <<4, 4, 4, 4, 4, 4, 4, 4>>, <<>>)}})

(* Each decoder is written as its reads in source order, one definition    *)
(* per read that depends on an earlier one: X_decode does the first read   *)
(* and hands its result to X_2, and so on; a failed read returns at once,  *)
(* as `?` does.                                                            *)

WarpRectilinearCoef_2(kr, kt) ==
  IF ~kt.ok THEN Fail(kr.pos) ELSE Done([kr |-> kr.v, kt |-> kt.v], kt.pos, 1)
WarpRectilinearCoef_1(kr) ==
  IF ~kr.ok THEN Fail(kr.pos) ELSE The({WarpRectilinearCoef_2(kr, res)
                                        : res \in {read_into(kr.pos, W(2), 8)}})
WarpRectilinearCoef_decode(p) == The({WarpRectilinearCoef_1(res)
                                      : res \in {read_into(p, W(4), 8)}})

WarpFisheyeCoef_1(kr) == IF ~kr.ok THEN Fail(kr.pos) ELSE Done([kr |-> kr.v], kr.pos, 1)
WarpFisheyeCoef_decode(p) == The({WarpFisheyeCoef_1(res)
                                  : res \in {read_into(p, W(4), 8)}})

WarpRectilinear2Coef_2(kr, kt) ==
  IF ~kt.ok THEN Fail(kr.pos) ELSE Done([kr |-> kr.v, kt |-> kt.v], kt.pos, 1)
WarpRectilinear2Coef_1(kr) ==
  IF ~kr.ok THEN Fail(kr.pos) ELSE The({WarpRectilinear2Coef_2(kr, res)
                                        : res \in {read_into(kr.pos, W(2), 8)}})
WarpRectilinear2Coef_decode(p) == The({WarpRectilinear2Coef_1(res)
                                       : res \in {read_into(p, W(15), 8)}})

BadPoint_1(r) ==
  IF ~r.ok THEN Fail(r.pos) ELSE Done([row |-> r.v[1], column |-> r.v[2]], r.pos, 1)
BadPoint_decode(p) == The({BadPoint_1(res)
                           : res \in {ReadPrims(p, <<4, 4>>, <<>>)}})

BadRect_1(r) ==
  IF ~r.ok THEN Fail(r.pos)
  ELSE Done([top |-> r.v[1], left |-> r.v[2], bottom |-> r.v[3], right |-> r.v[4]], r.pos, 1)
BadRect_decode(p) == The({BadRect_1(res)
                          : res \in {ReadPrims(p, <<4, 4, 4, 4>>, <<>>)}})

DecodeElem(kind, p) ==
  CASE kind = "WarpRectilinearCoef" -> WarpRectilinearCoef_decode(p)
    [] kind = "WarpFisheyeCoef" -> WarpFisheyeCoef_decode(p)
    [] kind = "WarpRectilinear2Coef" -> WarpRectilinear2Coef_decode(p)
    [] kind = "BadPoint" -> BadPoint_decode(p)
    [] kind = "BadRect" -> BadRect_decode(p)

\* (0..n).map(|_| X::decode(cur)).collect::<Result<Vec<X>>>(): element k is decoded
\* only after elements 0..k-1 were, and the first error ends the iteration
RECURSIVE CollectFrom(_, _, _, _, _)
CollectNext(kind, n, k, acc, e) ==
  IF e.ok THEN CollectFrom(kind, e.pos, n, k + 1, Append(acc, e.v))
  ELSE [ok |-> FALSE, v |-> NoVal, pos |-> e.pos, n |-> k]
CollectFrom(kind, p, n, k, acc) ==
  IF ~WLess(W(k), n) THEN Done(acc, p, k)
  ELSE The({CollectNext(kind, n, j, a, e)
            : j \in {k}, a \in {acc}, e \in {DecodeElem(kind, p)}})

Collect(kind, p, n) == CollectFrom(kind, p, n, 0, <<>>)

WarpRectilinear_3(flags, coefs, c) ==
  IF ~c.ok THEN Eof(c.pos, coefs.n)
  ELSE Good([tag |-> "WarpRectilinear", flags |-> flags, coefs |-> coefs.v,
             center_x |-> c.v[1], center_y |-> c.v[2]], c.pos, coefs.n)
WarpRectilinear_2(flags, coefs) ==
  IF ~coefs.ok THEN Eof(coefs.pos, coefs.n)
  ELSE The({WarpRectilinear_3(flags, coefs, res)
            : res \in {ReadPrims(coefs.pos, <<8, 8>>, <<>>)}})
WarpRectilinear_1(flags, n) ==
  IF ~n.ok THEN Eof(n.pos, 0)
  ELSE The({WarpRectilinear_2(flags, res)
            : res \in {Collect("WarpRectilinearCoef", n.pos, n.v)}})
WarpRectilinear_decode(flags, p) == The({WarpRectilinear_1(flags, res)
                                         : res \in {read_u32(p)}})

WarpFisheye_3(flags, coefs, c) ==
  IF ~c.ok THEN Eof(c.pos, coefs.n)
  ELSE Good([tag |-> "WarpFisheye", flags |-> flags, coefs |-> coefs.v,
             center_x |-> c.v[1], center_y |-> c.v[2]], c.pos, coefs.n)
WarpFisheye_2(flags, coefs) ==
  IF ~coefs.ok THEN Eof(coefs.pos, coefs.n)
  ELSE The({WarpFisheye_3(flags, coefs, res)
            : res \in {ReadPrims(coefs.pos, <<8, 8>>, <<>>)}})
WarpFisheye_1(flags, n) ==
  IF ~n.ok THEN Eof(n.pos, 0)
  ELSE The({WarpFisheye_2(flags, res)
            : res \in {Collect("WarpFisheyeCoef", n.pos, n.v)}})
WarpFisheye_decode(flags, p) == The({WarpFisheye_1(flags, res)
                                     : res \in {read_u32(p)}})

FixVignetteRadial_2(flags, k, c) ==
  IF ~c.ok THEN Eof(c.pos, 0)
  ELSE Good([tag |-> "FixVignetteRadial", flags |-> flags, k |-> k.v,
             center_x |-> c.v[1], center_y |-> c.v[2]], c.pos, 0)
FixVignetteRadial_1(flags, k) ==
  IF ~k.ok THEN Eof(k.pos, 0)
  ELSE The({FixVignetteRadial_2(flags, k, res)
            : res \in {ReadPrims(k.pos, <<8, 8>>, <<>>)}})
FixVignetteRadial_decode(flags, p) == The({FixVignetteRadial_1(flags, res)
                                           : res \in {read_into(p, W(5), 8)}})

FixBadPixelsConstant_1(flags, r) ==
  IF ~r.ok THEN Eof(r.pos, 0)
  ELSE Good([tag |-> "FixBadPixelsConstant", flags |-> flags,
             constant |-> r.v[1], bayer_phase |-> r.v[2]], r.pos, 0)
FixBadPixelsConstant_decode(flags, p) ==
  The({FixBadPixelsConstant_1(flags, res)
       : res \in {ReadPrims(p, <<4, 4>>, <<>>)}})

FixBadPixelsList_3(flags, h, bad_points, bad_rects) ==
  IF ~bad_rects.ok THEN Eof(bad_rects.pos, bad_points.n + bad_rects.n)
  ELSE Good([tag |-> "FixBadPixelsList", flags |-> flags, bayer_phase |-> h.v[1],
             bad_points |-> bad_points.v, bad_rects |-> bad_rects.v],
            bad_rects.pos, bad_points.n + bad_rects.n)
FixBadPixelsList_2(flags, h, bad_points) ==
  IF ~bad_points.ok THEN Eof(bad_points.pos, bad_points.n)
  ELSE The({FixBadPixelsList_3(flags, h, bad_points, res)
            : res \in {Collect("BadRect", bad_points.pos, h.v[3])}})
FixBadPixelsList_1(flags, h) ==
  IF ~h.ok THEN Eof(h.pos, 0)
  ELSE The({FixBadPixelsList_2(flags, h, res)
            : res \in {Collect("BadPoint", h.pos, h.v[2])}})
FixBadPixelsList_decode(flags, p) ==
  The({FixBadPixelsList_1(flags, res)
       : res \in {ReadPrims(p, <<4, 4, 4>>, <<>>)}})

TrimBounds_1(flags, r) ==
  IF ~r.ok THEN Eof(r.pos, 0)
  ELSE Good([tag |-> "TrimBounds", flags |-> flags, top |-> r.v[1], left |-> r.v[2],
             bottom |-> r.v[3], right |-> r.v[4]], r.pos, 0)
TrimBounds_decode(flags, p) == The({TrimBounds_1(flags, res)
                                    : res \in {ReadPrims(p, <<4, 4, 4, 4>>, <<>>)}})

MapTable_3(flags, region, table) ==
  IF ~table.ok THEN Eof(table.pos, 0)
  ELSE Good([tag |-> "MapTable", flags |-> flags, region |-> region.v,
             table |-> table.v], table.pos, table.n)
\* a table of as many u16 as the bytes left in the buffer hold, whatever len says
MapTable_2_remaining(flags, region, len) ==
  IF ~len.ok THEN Eof(len.pos, 0)
  ELSE The({MapTable_3(flags, region, res)
            : res \in {read_into(len.pos, W((Len(buf) - ToNat(len.pos)) \div 2), 2)}})
MapTable_2(flags, region, len) ==
  IF ~len.ok THEN Eof(len.pos, 0)
  ELSE The({MapTable_3(flags, region, res)
            : res \in {read_into(len.pos, len.v, 2)}})
MapTable_1(flags, region) ==
  IF ~region.ok THEN Eof(region.pos, 0)
  ELSE The({MapTable_2(flags, region, res)
            : res \in {read_u32(region.pos)}})
MapTable_decode(flags, p) == The({MapTable_1(flags, res)
                                  : res \in {DngOpcodeRegion_decode(p)}})

MapPolynomial_3(flags, region, coefs) ==
  IF ~coefs.ok THEN Eof(coefs.pos, 0)
  ELSE Good([tag |-> "MapPolynomial", flags |-> flags, region |-> region.v,
             coefs |-> coefs.v], coefs.pos, coefs.n)
\* `degree` coefficients read where the schema has degree + 1
MapPolynomial_2_degree(flags, region, degree) ==
  IF ~degree.ok THEN Eof(degree.pos, 0)
  ELSE The({MapPolynomial_3(flags, region, res)
            : res \in {read_into(degree.pos, degree.v, 8)}})
MapPolynomial_2(flags, region, degree) ==
  IF ~degree.ok THEN Eof(degree.pos, 0)
  ELSE The({MapPolynomial_3(flags, region, res)
            : res \in {read_into(degree.pos, WAdd(degree.v, W(1)), 8)}})
MapPolynomial_1(flags, region) ==
  IF ~region.ok THEN Eof(region.pos, 0)
  ELSE The({MapPolynomial_2(flags, region, res)
            : res \in {read_u32(region.pos)}})
MapPolynomial_decode(flags, p) == The({MapPolynomial_1(flags, res)
                                       : res \in {DngOpcodeRegion_decode(p)}})

\* map_points_h * map_points_v * map_planes in u32 (line 321): left to right, each
\* product checked or wrapped as the build says
GainMapLen_2(hv, hvp, checks) ==
  [overflow |-> checks /\ (~Fits32(hv) \/ ~Fits32(hvp)), len |-> Wrap32(hvp)]
GainMapLen_1(hv, planes, checks) == The({GainMapLen_2(hv, res, checks)
                                         : res \in {WMul(Wrap32(hv), planes)}})
GainMapLen(h, v, planes, checks) == The({GainMapLen_1(res, planes, checks)
                                         : res \in {WMul(h, v)}})

GainMap_4(flags, region, h, map_gain) ==
  IF ~map_gain.ok THEN Eof(map_gain.pos, 0)
  ELSE Good([tag |-> "GainMap", flags |-> flags, region |-> region.v,
             map_points_v |-> h.v[1], map_points_h |-> h.v[2],
             map_spacing_v |-> h.v[3], map_spacing_h |-> h.v[4],
             map_origin_v |-> h.v[5], map_origin_h |-> h.v[6],
             map_planes |-> h.v[7], map_gain |-> map_gain.v], map_gain.pos, map_gain.n)
GainMap_3(flags, region, h, len) ==
  IF len.overflow THEN Panic(h.pos, 0)
  ELSE The({GainMap_4(flags, region, h, res)
            : res \in {read_into(h.pos, len.len, 4)}})
GainMap_2(flags, region, h, checks) ==
  IF ~h.ok THEN Eof(h.pos, 0)
  ELSE The({GainMap_3(flags, region, h, res)
            : res \in {GainMapLen(h.v[2], h.v[1], h.v[7], checks)}})
GainMap_1(flags, region, checks) ==
  IF ~region.ok THEN Eof(region.pos, 0)
  ELSE The({GainMap_2(flags, region, res, checks)
            : res \in {ReadPrims(region.pos, <<4, 4, 8, 8, 8, 8, 4>>, <<>>)}})
GainMap_decode(flags, p, checks) == The({GainMap_1(flags, res, checks)
                                         : res \in {DngOpcodeRegion_decode(p)}})

WarpRectilinear2_3(flags, coefs, c) ==
  IF ~c.ok THEN Eof(c.pos, coefs.n)
  ELSE Good([tag |-> "WarpRectilinear2", flags |-> flags, coefs |-> coefs.v,
             center_x |-> c.v[1], center_y |-> c.v[2],
             reciprocal_radial |-> c.v[3]], c.pos, coefs.n)
WarpRectilinear2_2(flags, coefs) ==
  IF ~coefs.ok THEN Eof(coefs.pos, coefs.n)
  ELSE The({WarpRectilinear2_3(flags, coefs, res)
            : res \in {ReadPrims(coefs.pos, <<8, 8, 4>>, <<>>)}})
WarpRectilinear2_1(flags, n) ==
  IF ~n.ok THEN Eof(n.pos, 0)
  ELSE The({WarpRectilinear2_2(flags, res)
            : res \in {Collect("WarpRectilinear2Coef", n.pos, n.v)}})
WarpRectilinear2_decode(flags, p) == The({WarpRectilinear2_1(flags, res)
                                          : res \in {read_u32(p)}})

\* one schema for DeltaPerRow, DeltaPerColumn, ScalePerRow and ScalePerColumn;
\* the variant is put around it by the caller (lines 446..449)
ValuesPerRowOrCol_3(flags, region, values) ==
  IF ~values.ok THEN Eof(values.pos, 0)
  ELSE Good([flags |-> flags, region |-> region.v, values |-> values.v],
            values.pos, values.n)
ValuesPerRowOrCol_2(flags, region, len) ==
  IF ~len.ok THEN Eof(len.pos, 0)
  ELSE The({ValuesPerRowOrCol_3(flags, region, res)
            : res \in {read_into(len.pos, len.v, 4)}})
ValuesPerRowOrCol_1(flags, region) ==
  IF ~region.ok THEN Eof(region.pos, 0)
  ELSE The({ValuesPerRowOrCol_2(flags, region, res)
            : res \in {read_u32(region.pos)}})
ValuesPerRowOrCol_decode(flags, p) == The({ValuesPerRowOrCol_1(flags, res)
                                           : res \in {DngOpcodeRegion_decode(p)}})

\* every row and column opcode wrapped as DeltaPerRow
Variant_DeltaPerRow(tag, r) ==
  IF r.st = "ok"
  THEN [r EXCEPT !.v = [tag |-> "DeltaPerRow", flags |-> r.v.flags, region |-> r.v.region,
                        values |-> r.v.values]]
  ELSE r

\* the Scale variants built with both flags cleared
Variant_ScaleFlags(tag, r) ==
  IF r.st = "ok"
  THEN [r EXCEPT !.v = [tag |-> tag,
                        flags |-> IF tag \in {"ScalePerRow", "ScalePerColumn"}
                                  THEN [optional |-> FALSE, preview_skip |-> FALSE]
                                  ELSE r.v.flags,
                        region |-> r.v.region, values |-> r.v.values]]
  ELSE r

\* DngOpcode::X(ValuesPerRowOrCol): the enum variant around the shared struct
Variant(tag, r) ==
  IF r.st = "ok"
  THEN [r EXCEPT !.v = [tag |-> tag, flags |-> r.v.flags, region |-> r.v.region,
                        values |-> r.v.values]]
  ELSE r

\* DngOpcodeId::try_from(op_id_code): the enum's discriminants; "Err" when none matches
DngOpcodeId(code) ==
  CASE code = W(1) -> "WarpRectilinear"
    [] code = W(2) -> "WarpFisheye"
    [] code = W(3) -> "FixVignetteRadial"
    [] code = W(4) -> "FixBadPixelsConstant"
    [] code = W(5) -> "FixBadPixelsList"
    [] code = W(6) -> "TrimBounds"
    [] code = W(7) -> "MapTable"
    [] code = W(8) -> "MapPolynomial"
    [] code = W(9) -> "GainMap"
    [] code = W(10) -> "DeltaPerRow"
    [] code = W(11) -> "DeltaPerColumn"
    [] code = W(12) -> "ScalePerRow"
    [] code = W(13) -> "ScalePerColumn"
    [] code = W(14) -> "WarpRectilinear2"
    [] OTHER -> "Err"

\* the inner `match op_id` of decode_opcode_list (lines 436..451)
DecodeOp(op_id, flags, p, checks) ==
  CASE op_id = "WarpRectilinear" -> WarpRectilinear_decode(flags, p)
    [] op_id = "WarpFisheye" -> WarpFisheye_decode(flags, p)
    [] op_id = "FixVignetteRadial" -> FixVignetteRadial_decode(flags, p)
    [] op_id = "FixBadPixelsConstant" -> FixBadPixelsConstant_decode(flags, p)
    [] op_id = "FixBadPixelsList" -> FixBadPixelsList_decode(flags, p)
    [] op_id = "TrimBounds" -> TrimBounds_decode(flags, p)
    [] op_id = "MapTable" -> MapTable_decode(flags, p)
    [] op_id = "MapPolynomial" -> MapPolynomial_decode(flags, p)
    [] op_id = "GainMap" -> GainMap_decode(flags, p, checks)
    [] op_id = "DeltaPerRow" -> Variant("DeltaPerRow", ValuesPerRowOrCol_decode(flags, p))
    [] op_id = "DeltaPerColumn" -> Variant("DeltaPerColumn", ValuesPerRowOrCol_decode(flags, p))
    [] op_id = "ScalePerRow" -> Variant("ScalePerRow", ValuesPerRowOrCol_decode(flags, p))
    [] op_id = "ScalePerColumn" -> Variant("ScalePerColumn", ValuesPerRowOrCol_decode(flags, p))
    [] op_id = "WarpRectilinear2" -> WarpRectilinear2_decode(flags, p)


-----------------------------------------------------------------------------
(* decode_opcode_list                                                      *)

\* `pos_start + op_len != cur.position() as u32` at line 452, in u32
\* a size check that lets a decoder stop short of the declared payload
SizeCheck_1_lenient(sum, end, checks) ==
  IF checks /\ ~Fits32(sum) THEN "overflow"
  ELSE IF WLess(Wrap32(sum), Wrap32(end)) THEN "mismatch"
  ELSE "ok"

SizeCheck_1(sum, end, checks) ==
  IF checks /\ ~Fits32(sum) THEN "overflow"
  ELSE IF Wrap32(sum) # Wrap32(end) THEN "mismatch"
  ELSE "ok"
SizeCheck(start, len, end, checks) == The({SizeCheck_1(res, end, checks)
                                           : res \in {WAdd(start, len)}})

\* SeekFrom::Start(op_len) where the code has SeekFrom::Current
SeekCurrent_Start(p, off) == off

\* op_len taken as an i32 offset: 2^31 and above seek backwards, by 2^32 - off, and a
\* seek to before the start fails and leaves the position
SeekBack(p, back) == IF back > ToNat(p) THEN p ELSE W(ToNat(p) - back)
SeekCurrent_signed(p, off) ==
  IF Len(off) = 4 /\ off[4] >= 128
  THEN SeekBack(p, ToNat([k \in 1..4 |-> 255 - off[k]]) + 1)
  ELSE WAdd(p, off)

\* cur.seek(SeekFrom::Current(op_len.into())): a Cursor seeks past the end of its
\* buffer without error; the Result is dropped (`_ =`)
SeekCurrent(p, off) == WAdd(p, off)

\* `0..=count`
LoopRuns_inclusive(k, n) == WLeq(W(k), n)

\* `for _ in 0..count`: whether iteration number k (from 0) runs
LoopRuns(k, n) == WLess(W(k), n)

Return(kind, recs) ==
  /\ pc' = "done"
  /\ outcome' = kind
  /\ returned' = recs

ReadCount ==
  /\ pc = "count"
  /\ \E r \in {read_u32(pos)} :
        IF r.ok
        THEN /\ count' = r.v
             /\ pos' = r.pos
             /\ pc' = "loop"
             /\ UNCHANGED <<outcome, returned>>
        ELSE /\ Return("UnexpectedEof", <<>>)
             /\ UNCHANGED <<count, pos>>
  /\ UNCHANGED <<buf, overflow_checks, i, op_id_code, op_flags, op_len, pos_start, ops,
                 hist, nelems, gen, callvars>>

\* a header read that takes an entry of a spec_version above 1.4.0.0 as one to skip
ReadHeader_version_checked ==
  /\ pc = "loop"
  /\ LoopRuns(i, count)
  /\ \E h \in {ReadPrims(pos, <<4, 4, 4, 4>>, <<>>)} :
       IF h.ok
         THEN /\ op_id_code' = IF WLeq(h.v[2], FromBE(<<1, 4, 0, 0>>)) THEN h.v[1] ELSE W(0)
              /\ op_flags' = h.v[3]
              /\ op_len' = h.v[4]
              /\ pos' = h.pos
              /\ pos_start' = Wrap32(h.pos)
              /\ pc' = "match"
              /\ hist' = Append(hist, [start |-> pos, id |-> h.v[1], ver |-> h.v[2],
                                       flags |-> h.v[3], len |-> h.v[4]])
              /\ UNCHANGED <<outcome, returned>>
         ELSE /\ Return("UnexpectedEof", <<>>)
              /\ UNCHANGED <<op_id_code, op_flags, op_len, pos, pos_start, hist>>
  /\ UNCHANGED <<buf, overflow_checks, count, i, ops, nelems, gen, callvars>>

ReadHeader ==
  /\ pc = "loop"
  /\ LoopRuns(i, count)
  /\ \E h \in {ReadPrims(pos, <<4, 4, 4, 4>>, <<>>)} :
        IF h.ok
        THEN /\ op_id_code' = h.v[1]
             /\ op_flags' = h.v[3]
             /\ op_len' = h.v[4]
             /\ pos' = h.pos
             /\ pos_start' = Wrap32(h.pos)
             /\ pc' = "match"
             /\ hist' = Append(hist, [start |-> pos, id |-> h.v[1], ver |-> h.v[2],
                                      flags |-> h.v[3], len |-> h.v[4]])
             /\ UNCHANGED <<outcome, returned>>
        ELSE /\ Return("UnexpectedEof", <<>>)
             /\ UNCHANGED <<op_id_code, op_flags, op_len, pos, pos_start, hist>>
  /\ UNCHANGED <<buf, overflow_checks, count, i, ops, nelems, gen, callvars>>

\* what follows the payload decoder: `?`, the size check, ops.push(op)
Push(op, size) ==
  /\ nelems' = nelems + op.n
  /\ IF op.st = "eof" THEN
       /\ Return("UnexpectedEof", <<>>)
       /\ UNCHANGED <<pos, i, ops>>
     ELSE IF op.st = "overflow" \/ size = "overflow" THEN
       /\ Return("OverflowPanic", <<>>)
       /\ UNCHANGED <<pos, i, ops>>
     ELSE IF size = "mismatch" THEN
       /\ Return("InvalidOpcodeSize", <<>>)
       /\ UNCHANGED <<pos, i, ops>>
     ELSE
       /\ ops' = Append(ops, op.v)
       /\ pos' = op.pos
       /\ i' = i + 1
       /\ pc' = "loop"
       /\ UNCHANGED <<outcome, returned>>

Checked(op) ==
  \E size \in {SizeCheck(pos_start, op_len, op.pos, overflow_checks)} : Push(op, size)

DecodeKnown ==
  /\ pc = "match"
  /\ \E op_id \in {DngOpcodeId(op_id_code)} :
       /\ op_id # "Err"
       /\ \E op \in {DecodeOp(op_id, DngOpcodeFlags_decode(op_flags), pos, overflow_checks)} :
            Checked(op)
  /\ UNCHANGED <<buf, overflow_checks, count, op_id_code, op_flags, op_len, pos_start,
                 hist, gen, callvars>>

SkipUnknown ==
  /\ pc = "match"
  /\ DngOpcodeId(op_id_code) = "Err"
  /\ pos' = SeekCurrent(pos, op_len)
  /\ i' = i + 1
  /\ pc' = "loop"
  /\ UNCHANGED <<buf, overflow_checks, count, op_id_code, op_flags, op_len, pos_start,
                 ops, outcome, returned, hist, nelems, gen, callvars>>

\* a return that takes bytes left after the last entry as an error
ReturnOk_strict ==
  /\ pc = "loop"
  /\ ~LoopRuns(i, count)
  /\ IF pos = W(Len(buf)) THEN Return("Ok", ops) ELSE Return("UnexpectedEof", <<>>)
  /\ UNCHANGED <<buf, overflow_checks, pos, count, i, op_id_code, op_flags, op_len,
                 pos_start, ops, hist, nelems, gen, callvars>>

ReturnOk ==
  /\ pc = "loop"
  /\ ~LoopRuns(i, count)
  /\ Return("Ok", ops)
  /\ UNCHANGED <<buf, overflow_checks, pos, count, i, op_id_code, op_flags, op_len,
                 pos_start, ops, hist, nelems, gen, callvars>>

Next == ReadCount \/ ReadHeader \/ DecodeKnown \/ SkipUnknown \/ ReturnOk

-----------------------------------------------------------------------------
(* A second call.  decode_opcode_list keeps nothing between calls (its     *)
(* cursor and ops are locals, lines 422..424), so a second call starts     *)
(* from the same locals; the caller passes the same bytes again or bytes   *)
(* whose spec_version fields, at the headers the first call read, are      *)
(* other values.                                                           *)

NoCall == [outcome |-> "none", returned |-> <<>>, changed |-> FALSE]
NotCropped == [st |-> "idle", v |-> <<>>, given |-> <<>>]

\* the header, if any, whose spec_version field (bytes 4..7 of the header) holds offset k
VersionFieldAt(k) == {j \in 1..Len(hist) : k - ToNat(hist[j].start) \in 5..8}

\* the same bytes, each byte of those spec_version fields replaced by 255 minus it
OtherVersions(bytes) ==
  [k \in 1..Len(bytes) |-> IF VersionFieldAt(k) # {} THEN 255 - bytes[k] ELSE bytes[k]]

SecondCall ==
  /\ pc = "done"
  /\ call = 1
  /\ \E other \in BOOLEAN :
       /\ buf' = IF other THEN OtherVersions(buf) ELSE buf
       /\ first' = [outcome |-> outcome, returned |-> returned,
                    changed |-> other /\ hist # <<>>]
  /\ call' = 2
  /\ pc' = "count"
  /\ pos' = W(0)
  /\ count' = W(0)
  /\ i' = 0
  /\ op_id_code' = W(0)
  /\ op_flags' = W(0)
  /\ op_len' = W(0)
  /\ pos_start' = W(0)
  /\ ops' = <<>>
  /\ outcome' = "running"
  /\ returned' = <<>>
  /\ hist' = <<>>
  /\ nelems' = 0
  /\ UNCHANGED <<overflow_checks, gen, input, dim, area, output>>

NextCalls == Next \/ SecondCall

-----------------------------------------------------------------------------
(* imgop::crop (mod.rs): the rows of the input, the first area.p.y of them *)
(* skipped, the next area.d.h taken, of each the columns area.p.x up to    *)
(* area.p.x + area.d.w, cloned into a new Vec.                             *)

\* side length of the images cropped
MaxDim == 2

\* input.chunks_exact(w), w > 0: the whole rows of w elements, a remainder left out
chunks_exact(inp, w) == [r \in 1..(Len(inp) \div w) |-> SubSeq(inp, (r - 1) * w + 1, r * w)]

\* Iterator::skip and Iterator::take
skip(s, n) == SubSeq(s, n + 1, Len(s))
take(s, n) == SubSeq(s, 1, Min(n, Len(s)))

\* row[a..b] is a slice of row
InRange(row, a, b) == a <= b /\ b <= Len(row)

RECURSIVE flat_map(_, _, _)
flat_map(rows, a, b) ==
  IF rows = <<>> THEN <<>> ELSE SubSeq(rows[1], a + 1, b) \o flat_map(Tail(rows), a, b)

\* output.extend over the rows taken: the first slice out of range panics
crop_rows(rows, a, inp) ==
  IF \E r \in 1..Len(rows) : ~InRange(rows[r], a.p.x, a.p.x + a.d.w)
    THEN [st |-> "panic", v |-> <<>>, given |-> inp]
    ELSE [st |-> "ok", v |-> flat_map(rows, a.p.x, a.p.x + a.d.w), given |-> inp]

\* chunks_exact panics on a chunk size of zero
crop(inp, d, a) ==
  IF d.w = 0 THEN [st |-> "panic", v |-> <<>>, given |-> inp]
  ELSE The({crop_rows(take(skip(c, a.p.y), a.d.h), a, inp) : c \in {chunks_exact(inp, d.w)}})

CallCrop ==
  /\ output.st = "idle"
  /\ pc = "idle"
  /\ output' = crop(input, dim, area)
  /\ UNCHANGED <<buf, overflow_checks, pc, pos, count, i, op_id_code, op_flags, op_len,
                 pos_start, ops, outcome, returned, hist, nelems, gen,
                 call, first, input, dim, area>>


-----------------------------------------------------------------------------
(* The input buffers.  Entries are written as the schema table lays them   *)
(* out (big-endian fields in read order); a buffer is a list of entries    *)
(* with at most one departure from a well-formed list: a wrong payload_len,*)
(* a wrong entry count, a cut, or trailing bytes.                          *)

\* entries written into a buffer
MaxEntries == 2
\* elements of each variable-length array
MaxArr == 1
\* bytes cut from the end of a buffer
MaxCut == 5

\* field values, distinct per field position k so that a swapped or misread field shows
U32v(k) == <<k, 1>>
U16v(k) == <<k, 1>>
F32v(k) == <<k, 0, 128, 63>>
F64v(k) == <<k, 0, 0, 0, 0, 0, 240, 63>>

NoFlags == [optional |-> FALSE, preview_skip |-> FALSE]

SRegion(k) ==
  [top |-> U32v(k + 1), left |-> U32v(k + 2), bottom |-> U32v(k + 3), right |-> U32v(k + 4),
   plane |-> U32v(k + 5), planes |-> U32v(k + 6), row_pitch |-> U32v(k + 7),
   col_pitch |-> U32v(k + 8)]

SWarpRectilinear(n) ==
  [tag |-> "WarpRectilinear", flags |-> NoFlags,
   coefs |-> [j \in 1..n |-> [kr |-> [q \in 1..4 |-> F64v(20 * j + q)],
                              kt |-> [q \in 1..2 |-> F64v(20 * j + 4 + q)]]],
   center_x |-> F64v(1), center_y |-> F64v(2)]

SWarpFisheye(n) ==
  [tag |-> "WarpFisheye", flags |-> NoFlags,
   coefs |-> [j \in 1..n |-> [kr |-> [q \in 1..4 |-> F64v(20 * j + q)]]],
   center_x |-> F64v(1), center_y |-> F64v(2)]

SFixVignetteRadial ==
  [tag |-> "FixVignetteRadial", flags |-> NoFlags, k |-> [q \in 1..5 |-> F64v(q)],
   center_x |-> F64v(6), center_y |-> F64v(7)]

SFixBadPixelsConstant ==
  [tag |-> "FixBadPixelsConstant", flags |-> NoFlags, constant |-> U32v(1),
   bayer_phase |-> U32v(2)]

SFixBadPixelsList(np, nr) ==
  [tag |-> "FixBadPixelsList", flags |-> NoFlags, bayer_phase |-> U32v(1),
   bad_points |-> [j \in 1..np |-> [row |-> U32v(20 * j + 1), column |-> U32v(20 * j + 2)]],
   bad_rects |-> [j \in 1..nr |-> [top |-> U32v(100 + 20 * j + 1), left |-> U32v(100 + 20 * j + 2),
                                   bottom |-> U32v(100 + 20 * j + 3),
                                   right |-> U32v(100 + 20 * j + 4)]]]

STrimBounds ==
  [tag |-> "TrimBounds", flags |-> NoFlags, top |-> U32v(1), left |-> U32v(2),
   bottom |-> U32v(3), right |-> U32v(4)]

\* the TrimBounds of the specification's concrete scenario
STrimBoundsScenario ==
  [tag |-> "TrimBounds", flags |-> NoFlags, top |-> W(0), left |-> W(0),
   bottom |-> W(100), right |-> W(200)]

SMapTable(n) ==
  [tag |-> "MapTable", flags |-> NoFlags, region |-> SRegion(0),
   table |-> [j \in 1..n |-> U16v(20 + j)]]

\* degree = n - 1: a polynomial has at least one coefficient
SMapPolynomial(n) ==
  [tag |-> "MapPolynomial", flags |-> NoFlags, region |-> SRegion(0),
   coefs |-> [j \in 1..n |-> F64v(20 + j)]]

SGainMap(v, h, planes) ==
  [tag |-> "GainMap", flags |-> NoFlags, region |-> SRegion(0),
   map_points_v |-> W(v), map_points_h |-> W(h),
   map_spacing_v |-> F64v(11), map_spacing_h |-> F64v(12),
   map_origin_v |-> F64v(13), map_origin_h |-> F64v(14),
   map_planes |-> W(planes), map_gain |-> [j \in 1..(v * h * planes) |-> F32v(20 + j)]]

SWarpRectilinear2(n) ==
  [tag |-> "WarpRectilinear2", flags |-> NoFlags,
   coefs |-> [j \in 1..n |-> [kr |-> [q \in 1..15 |-> F64v(20 * j + q)],
                              kt |-> [q \in 1..2 |-> F64v(20 * j + 15 + q)]]],
   center_x |-> F64v(1), center_y |-> F64v(2), reciprocal_radial |-> U32v(3)]

SValues(tag, n) ==
  [tag |-> tag, flags |-> NoFlags, region |-> SRegion(0),
   values |-> [j \in 1..n |-> F32v(20 + j)]]

RowColTags == {"DeltaPerRow", "DeltaPerColumn", "ScalePerRow", "ScalePerColumn"}

SampleRecords ==
  {SWarpRectilinear(n) : n \in 0..MaxArr}
  \cup {SWarpFisheye(n) : n \in 0..MaxArr}
  \cup {SFixVignetteRadial, SFixBadPixelsConstant, STrimBounds, STrimBoundsScenario}
  \cup {SFixBadPixelsList(np, nr) : np \in 0..MaxArr, nr \in 0..MaxArr}
  \cup {SMapTable(n) : n \in 0..MaxArr}
  \cup {SMapPolynomial(n) : n \in 1..(MaxArr + 1)}
  \cup {SGainMap(v, h, 1) : v \in 0..MaxArr, h \in 1..(MaxArr + 1)}
  \cup {SGainMap(2, 3, 1)}
  \cup {SWarpRectilinear2(n) : n \in 0..MaxArr}
  \cup {SValues(t, n) : t \in RowColTags, n \in 0..MaxArr}

\* the identifier the DNG specification gives each variant
IdOfTag(tag) ==
  CASE tag = "WarpRectilinear" -> 1 [] tag = "WarpFisheye" -> 2
    [] tag = "FixVignetteRadial" -> 3 [] tag = "FixBadPixelsConstant" -> 4
    [] tag = "FixBadPixelsList" -> 5 [] tag = "TrimBounds" -> 6
    [] tag = "MapTable" -> 7 [] tag = "MapPolynomial" -> 8
    [] tag = "GainMap" -> 9 [] tag = "DeltaPerRow" -> 10
    [] tag = "DeltaPerColumn" -> 11 [] tag = "ScalePerRow" -> 12
    [] tag = "ScalePerColumn" -> 13 [] tag = "WarpRectilinear2" -> 14

RECURSIVE Flat(_)
Flat(ss) == IF ss = <<>> THEN <<>> ELSE Head(ss) \o Flat(Tail(ss))

EncU32(v) == ToBE(v, 4)
EncF64(v) == ToBE(v, 8)
EncVec(vs, width) == Flat([k \in 1..Len(vs) |-> ToBE(vs[k], width)])
EncRegion(r) ==
  EncU32(r.top) \o EncU32(r.left) \o EncU32(r.bottom) \o EncU32(r.right) \o EncU32(r.plane)
  \o EncU32(r.planes) \o EncU32(r.row_pitch) \o EncU32(r.col_pitch)

\* the payload of a record, field by field in the order of the schema table
EncodePayload(r) ==
  CASE r.tag = "WarpRectilinear" ->
         EncU32(W(Len(r.coefs)))
         \o Flat([k \in 1..Len(r.coefs) |-> EncVec(r.coefs[k].kr, 8) \o EncVec(r.coefs[k].kt, 8)])
         \o EncF64(r.center_x) \o EncF64(r.center_y)
    [] r.tag = "WarpFisheye" ->
         EncU32(W(Len(r.coefs)))
         \o Flat([k \in 1..Len(r.coefs) |-> EncVec(r.coefs[k].kr, 8)])
         \o EncF64(r.center_x) \o EncF64(r.center_y)
    [] r.tag = "FixVignetteRadial" ->
         EncVec(r.k, 8) \o EncF64(r.center_x) \o EncF64(r.center_y)
    [] r.tag = "FixBadPixelsConstant" -> EncU32(r.constant) \o EncU32(r.bayer_phase)
    [] r.tag = "FixBadPixelsList" ->
         EncU32(r.bayer_phase) \o EncU32(W(Len(r.bad_points))) \o EncU32(W(Len(r.bad_rects)))
         \o Flat([k \in 1..Len(r.bad_points) |->
                    EncU32(r.bad_points[k].row) \o EncU32(r.bad_points[k].column)])
         \o Flat([k \in 1..Len(r.bad_rects) |->
                    EncU32(r.bad_rects[k].top) \o EncU32(r.bad_rects[k].left)
                    \o EncU32(r.bad_rects[k].bottom) \o EncU32(r.bad_rects[k].right)])
    [] r.tag = "TrimBounds" ->
         EncU32(r.top) \o EncU32(r.left) \o EncU32(r.bottom) \o EncU32(r.right)
    [] r.tag = "MapTable" ->
         EncRegion(r.region) \o EncU32(W(Len(r.table))) \o EncVec(r.table, 2)
    [] r.tag = "MapPolynomial" ->
         EncRegion(r.region) \o EncU32(W(Len(r.coefs) - 1)) \o EncVec(r.coefs, 8)
    [] r.tag = "GainMap" ->
         EncRegion(r.region) \o EncU32(r.map_points_v) \o EncU32(r.map_points_h)
         \o EncF64(r.map_spacing_v) \o EncF64(r.map_spacing_h)
         \o EncF64(r.map_origin_v) \o EncF64(r.map_origin_h)
         \o EncU32(r.map_planes) \o EncVec(r.map_gain, 4)
    [] r.tag = "WarpRectilinear2" ->
         EncU32(W(Len(r.coefs)))
         \o Flat([k \in 1..Len(r.coefs) |-> EncVec(r.coefs[k].kr, 8) \o EncVec(r.coefs[k].kt, 8)])
         \o EncF64(r.center_x) \o EncF64(r.center_y) \o EncU32(r.reciprocal_radial)
    [] r.tag \in RowColTags ->
         EncRegion(r.region) \o EncU32(W(Len(r.values))) \o EncVec(r.values, 4)

\* flags words with the record flags they stand for; the first four are what an
\* encoder writes, the last two set bits beyond the low two
FlagCases ==
  << [word |-> <<0, 0, 0, 0>>, optional |-> FALSE, preview_skip |-> FALSE, plain |-> TRUE],
     [word |-> <<0, 0, 0, 1>>, optional |-> TRUE, preview_skip |-> FALSE, plain |-> TRUE],
     [word |-> <<0, 0, 0, 2>>, optional |-> FALSE, preview_skip |-> TRUE, plain |-> TRUE],
     [word |-> <<0, 0, 0, 3>>, optional |-> TRUE, preview_skip |-> TRUE, plain |-> TRUE],
     [word |-> <<255, 255, 255, 253>>, optional |-> TRUE, preview_skip |-> FALSE, plain |-> FALSE],
     [word |-> <<128, 0, 1, 6>>, optional |-> FALSE, preview_skip |-> TRUE, plain |-> FALSE] >>

\* every variant is written with two of the flags words, TrimBounds with all of them
FlagChoices(id) ==
  IF id = 6 THEN 1..Len(FlagCases)
  ELSE {(id % Len(FlagCases)) + 1, ((id + 3) % Len(FlagCases)) + 1}

\* spec_version words: 0 and DNG 1.3.0.0
Versions == << <<0, 0, 0, 0>>, <<1, 3, 0, 0>> >>
SpecVersion == Versions[2]

\* an entry: its header words, its payload, and the record it was written from
KnownEntries ==
  {[id |-> EncU32(W(IdOfTag(r.tag))), ver |-> Versions[(f % 2) + 1], fl |-> FlagCases[f].word,
    payload |-> EncodePayload(r), known |-> TRUE, raw |-> FALSE, plain |-> FlagCases[f].plain,
    rec |-> [r EXCEPT !.flags = [optional |-> FlagCases[f].optional,
                                 preview_skip |-> FlagCases[f].preview_skip]]]
     : <<r, f>> \in {<<r, f>> \in SampleRecords \X (1..Len(FlagCases)) : f \in FlagChoices(IdOfTag(r.tag))}}

UnknownIds == {<<0, 0, 0, 0>>, <<0, 0, 0, 15>>, <<1, 0, 0, 6>>, <<255, 255, 255, 255>>}

UnknownEntries ==
  {[id |-> u, ver |-> SpecVersion, fl |-> <<0, 0, 0, 1>>,
    payload |-> [k \in 1..n |-> 170 + k], known |-> FALSE, raw |-> FALSE, plain |-> TRUE,
    rec |-> NoVal]
     : u \in UnknownIds, n \in {0, 3}}


\* entries no record encodes to: a GainMap whose grid dimensions multiply past u32,
\* and arrays whose declared element count is 2^32 - 1 with few elements present
AllOnes == <<255, 255, 255, 255>>
RawGainMap(v4, h4, nf) ==
  EncRegion(SRegion(0)) \o v4 \o h4 \o EncF64(F64v(11)) \o EncF64(F64v(12))
  \o EncF64(F64v(13)) \o EncF64(F64v(14)) \o <<0, 0, 0, 1>> \o EncVec([j \in 1..nf |-> F32v(20 + j)], 4)

RawPayloads ==
  {<<9, RawGainMap(<<0, 1, 0, 0>>, <<0, 1, 0, 0>>, nf)>> : nf \in 0..1}
  \cup {<<9, RawGainMap(AllOnes, AllOnes, nf)>> : nf \in 0..1}
  \cup {<<1, AllOnes \o EncVec([q \in 1..6 |-> F64v(q)], 8) \o EncF64(F64v(1)) \o EncF64(F64v(2))>>,
        <<5, EncU32(U32v(1)) \o AllOnes \o <<0, 0, 0, 0>> \o EncU32(U32v(2)) \o EncU32(U32v(3))>>,
        <<7, EncRegion(SRegion(0)) \o AllOnes \o ToBE(U16v(1), 2)>>,
        <<8, EncRegion(SRegion(0)) \o AllOnes \o EncF64(F64v(1))>>,
        <<12, EncRegion(SRegion(0)) \o AllOnes \o ToBE(F32v(1), 4)>>}

RawEntries ==
  {[id |-> EncU32(W(x[1])), ver |-> SpecVersion, fl |-> <<0, 0, 0, 0>>, payload |-> x[2],
    known |-> TRUE, raw |-> TRUE, plain |-> TRUE, rec |-> NoVal] : x \in RawPayloads}

AllEntries == KnownEntries \cup UnknownEntries \cup RawEntries

\* the entries that may stand before the last one: a recognised one and an unknown one
PrefixEntries ==
  {e \in KnownEntries : /\ [e.rec EXCEPT !.flags = NoFlags] = STrimBounds
                        /\ e.fl = <<0, 0, 0, 1>>}
  \cup {e \in UnknownEntries : e.id = <<0, 0, 0, 15>> /\ Len(e.payload) > 0}

RECURSIVE ListsOf(_)
ListsOf(k) ==
  IF k = 0 THEN {<<>>}
  ELSE {<<e>> : e \in AllEntries}
       \cup {<<e>> \o l : e \in PrefixEntries, l \in {x \in ListsOf(k - 1) : Len(x) = k - 1}}

EntryLists == ListsOf(MaxEntries) \cup {<<>>}

PrefixLengths == {0, 3, 4, 12, 19, 20}

Departures(es) ==
  {[kind |-> "none", j |-> 0, k |-> 0]}
  \cup {[kind |-> "len", j |-> j, k |-> k] : j \in 1..Len(es), k \in {-1, 1, 2}}
  \cup {[kind |-> "count", j |-> 0, k |-> k] : k \in {-1, 0, 1, 2}}
  \cup {[kind |-> "cut", j |-> 0, k |-> k] : k \in 1..MaxCut}
  \cup {[kind |-> "prefix", j |-> 0, k |-> k] : k \in PrefixLengths}
  \cup {[kind |-> "trail", j |-> 0, k |-> 2]}

\* payload_len as written: the payload's size, one less, one more, or 2^32 - 1
DeclaredLen(e, d, j) ==
  IF d.kind = "len" /\ d.j = j
  THEN (IF d.k = 2 THEN AllOnes
        ELSE IF d.k = -1 /\ Len(e.payload) = 0 THEN <<0, 0, 0, 7>>
        ELSE EncU32(W(Len(e.payload) + d.k)))
  ELSE EncU32(W(Len(e.payload)))

\* the entry count as written: the number of entries, zero, one less, one more, 2^32 - 1
DeclaredCount(es, d) ==
  IF d.kind = "count"
  THEN (IF d.k = 2 THEN AllOnes
        ELSE IF d.k = 0 THEN <<0, 0, 0, 0>>
        ELSE IF d.k = -1 /\ Len(es) = 0 THEN <<0, 0, 0, 3>>
        ELSE EncU32(W(Len(es) + d.k)))
  ELSE EncU32(W(Len(es)))

EncEntry(e, len4) == e.id \o e.ver \o e.fl \o len4 \o e.payload

Build(es, d) ==
  LET whole == DeclaredCount(es, d)
               \o Flat([j \in 1..Len(es) |-> EncEntry(es[j], DeclaredLen(es[j], d, j))])
  IN CASE d.kind = "cut" -> SubSeq(whole, 1, Len(whole) - Min(d.k, Len(whole)))
       [] d.kind = "prefix" -> SubSeq(whole, 1, Min(d.k, Len(whole)))
       [] d.kind = "trail" -> whole \o <<0, 0>>
       [] OTHER -> whole

\* what gen keeps of an entry
Slim(e) == [id |-> e.id, fl |-> e.fl, known |-> e.known, raw |-> e.raw, plain |-> e.plain,
            rec |-> e.rec,
            plen |-> Len(e.payload)]

Init ==
  /\ \E es \in EntryLists :
       \E d \in Departures(es) :
         /\ buf = Build(es, d)
         /\ gen = [entries |-> [j \in 1..Len(es) |-> Slim(es[j])], dep |-> d]
  /\ overflow_checks \in BOOLEAN
  /\ pc = "count"
  /\ pos = W(0)
  /\ count = W(0)
  /\ i = 0
  /\ op_id_code = W(0)
  /\ op_flags = W(0)
  /\ op_len = W(0)
  /\ pos_start = W(0)
  /\ ops = <<>>
  /\ outcome = "running"
  /\ returned = <<>>
  /\ hist = <<>>
  /\ nelems = 0
  /\ call = 1
  /\ first = NoCall
  /\ input = <<>>
  /\ dim = [w |-> 0, h |-> 0]
  /\ area = [p |-> [x |-> 0, y |-> 0], d |-> [w |-> 0, h |-> 0]]
  /\ output = NotCropped

Spec == Init /\ [][Next]_vars

\* crop called on a slice of distinct elements, with dimensions and areas that fit it or not
CropInit ==
  /\ \E w, h \in 0..MaxDim :
       /\ dim = [w |-> w, h |-> h]
       /\ \E n \in {w * h} \cup 0..MaxDim : input = [k \in 1..n |-> k]
  /\ \E x, y, w, h \in 0..MaxDim : area = [p |-> [x |-> x, y |-> y], d |-> [w |-> w, h |-> h]]
  /\ output = NotCropped
  /\ pc = "idle"
  /\ buf = <<>>
  /\ overflow_checks = FALSE
  /\ gen = [entries |-> <<>>, dep |-> [kind |-> "none"]]
  /\ pos = W(0)
  /\ count = W(0)
  /\ i = 0
  /\ op_id_code = W(0)
  /\ op_flags = W(0)
  /\ op_len = W(0)
  /\ pos_start = W(0)
  /\ ops = <<>>
  /\ outcome = "running"
  /\ returned = <<>>
  /\ hist = <<>>
  /\ nelems = 0
  /\ call = 1
  /\ first = NoCall

CropSpec == CropInit /\ [][CallCrop]_vars

\* two calls of decode_opcode_list, one after the other
TwoCallSpec == Init /\ [][NextCalls]_vars

\* decode_opcode_list is one synchronous call: every step that can be taken is taken
FairSpec == Spec /\ WF_vars(Next)


-----------------------------------------------------------------------------
(* Notions the properties are stated in.  They are defined on the buffer,  *)
(* the headers read (hist) and the way the input was written (gen), not on *)
(* the decoder's own lookups.                                              *)

Finished == pc = "done"

\* an id in 1..=14
Recognised(id) == WLeq(W(1), id) /\ WLeq(id, W(14))
RecognisedHeader(h) == Recognised(h.id)

LastHeader == hist[Len(hist)]
HeaderEnd(h) == WAdd(h.start, W(16))
PayloadEnd(h) == WAdd(HeaderEnd(h), h.len)

\* the payload decoder's result on the entry of header h
DecodedAt(h) ==
  DecodeOp(DngOpcodeId(h.id), DngOpcodeFlags_decode(h.flags), HeaderEnd(h), overflow_checks)

\* the input is a list of entries written from records (and unknown entries), with true
\* payload lengths and the true count
WellFormedInput ==
  /\ gen.dep.kind = "none"
  /\ \A j \in 1..Len(gen.entries) : ~gen.entries[j].raw

WrittenFromRecord(e) == e.known /\ ~e.raw
WrittenRecords ==
  LET es == SelectSeq(gen.entries, WrittenFromRecord)
  IN [k \in 1..Len(es) |-> es[k].rec]

\* the buffer ends before the count, a header or a declared payload of one of the
\* declared entries, the entries laid end to end by their declared payload_len
RECURSIVE EndsEarlyFrom(_, _, _)
EndsEarlyFrom(k, s, n) ==
  IF ~WLess(W(k), n) THEN FALSE
  ELSE IF ~Avail(s, W(16)) THEN TRUE
  ELSE LET next == WAdd(WAdd(s, W(16)), FromBE(Bytes(WAdd(s, W(12)), 4)))
       IN IF ~WLeq(next, W(Len(buf))) THEN TRUE ELSE EndsEarlyFrom(k + 1, next, n)

EndsEarly == Len(buf) < 4 \/ EndsEarlyFrom(0, W(4), FromBE(SubSeq(buf, 1, 4)))

-----------------------------------------------------------------------------
(* C1: a recognised entry whose payload decoder succeeds having consumed a *)
(* number of bytes other than payload_len ends the whole decode with the   *)
(* 'Invalid opcode size' error and no records.  Stated on every header     *)
(* read so far: such an entry is the last one, and once its decoder has    *)
(* run the decode is finished with that error and nothing returned.        *)
(* The code departs from it when pos_start + op_len passes 2^32 in a build *)
(* with overflow checks (the subject of C13).                              *)
C1_SizeMismatchIsFatal ==
  \A j \in 1..Len(hist) :
    (/\ Recognised(hist[j].id)
     /\ DecodedAt(hist[j]).st = "ok"
     /\ DecodedAt(hist[j]).pos # PayloadEnd(hist[j]))
    => /\ j = Len(hist)
       /\ pc \in {"match", "done"}
       /\ Finished => outcome = "InvalidOpcodeSize" /\ returned = <<>>

(* C2: an entry with an id outside 1..=14 appends nothing and leaves the   *)
(* cursor exactly payload_len bytes after its header; a following          *)
(* well-formed entry decodes to the record it was written from, as it      *)
(* would without the unknown entry before it.                              *)
C2_SkipKeepsAlignment ==
  /\ (pc \in {"loop", "done"} /\ Len(hist) > 0 /\ ~Recognised(LastHeader.id))
       => pos = PayloadEnd(LastHeader)
  /\ pc = "loop" => Len(ops) = Len(SelectSeq(hist, RecognisedHeader))
  /\ (Finished /\ WellFormedInput /\ \E j \in 1..Len(gen.entries) : ~gen.entries[j].known)
       => outcome = "Ok" /\ returned = WrittenRecords

C2_Witness ==
  /\ Finished /\ WellFormedInput /\ outcome = "Ok"
  /\ Len(hist) = 2 /\ ~Recognised(hist[1].id) /\ hist[1].len # W(0)
  /\ Recognised(hist[2].id) /\ Len(returned) = 1

(* C3: a buffer that ends before the count, a header or the declared       *)
(* payload of a declared entry is complete makes the decode fail.  (The    *)
(* claim names the error, truncation; where a recognised entry's decoder   *)
(* stops short of a declared length that runs past the buffer, C1 asks for *)
(* the size error, so only the failing is stated here.)  The code departs  *)
(* from it for an unrecognised last entry: its payload is sought over, not *)
(* read, and the decode returns Ok.                                        *)
C3_TruncationIsFatal ==
  (Finished /\ EndsEarly) => outcome # "Ok"

(* C4: the decode ends in one of two ways, Ok with the complete sequence   *)
(* or one of the two fatal errors (truncation, size mismatch) with no      *)
(* records; a finished decode reads nothing more.  The code has a third    *)
(* way to end in a build with overflow checks: the arithmetic panics of    *)
(* lines 321 and 452 (C6, C13).                                            *)
C4_TwoOutcomes ==
  Finished =>
    \/ outcome = "Ok" /\ returned = ops /\ W(Len(hist)) = count
    \/ outcome \in {"UnexpectedEof", "InvalidOpcodeSize"} /\ returned = <<>>

(* C5: a successful decode of a buffer declaring N entries read N headers  *)
(* and returns one record per header with an id in 1..=14, in header       *)
(* order, each of the variant its id names; the other headers contribute   *)
(* nothing.  On a well-formed input the records are, in order, the records *)
(* the recognised entries were written from.                               *)
C5_OneRecordPerRecognisedEntry ==
  outcome = "Ok" =>
    LET rs == SelectSeq(hist, RecognisedHeader)
    IN /\ W(Len(hist)) = count
       /\ Len(returned) = Len(rs)
       /\ Len(returned) <= Len(hist)
       /\ \A k \in 1..Len(rs) : W(IdOfTag(returned[k].tag)) = rs[k].id
       /\ WellFormedInput => returned = WrittenRecords

C5_Witness ==
  /\ outcome = "Ok" /\ Len(hist) = MaxEntries /\ Len(returned) = MaxEntries
  /\ returned[1].tag # returned[MaxEntries].tag

(* C6: a decoded GainMap holds exactly map_points_h * map_points_v *       *)
(* map_planes gains, the product taken without a width; when fewer floats  *)
(* remain after the 76 bytes of region and header fields the decode fails  *)
(* with the truncation error.  The code multiplies in u32.                 *)
GainProduct(g) == WMul(WMul(g.map_points_h, g.map_points_v), g.map_planes)
GainHeaderAt(h) == ReadPrims(WAdd(HeaderEnd(h), W(32)), <<4, 4, 8, 8, 8, 8, 4>>, <<>>)
C6_GainMapReadsProduct ==
  /\ \A k \in 1..Len(ops) :
       ops[k].tag = "GainMap" => W(Len(ops[k].map_gain)) = GainProduct(ops[k])
  /\ (/\ Finished /\ Len(hist) > 0 /\ LastHeader.id = W(9)
      /\ Len(ops) < Len(SelectSeq(hist, RecognisedHeader))
      /\ GainHeaderAt(LastHeader).ok
      /\ ~Avail(WAdd(HeaderEnd(LastHeader), W(76)),
                WMul(W(4), WMul(WMul(GainHeaderAt(LastHeader).v[2], GainHeaderAt(LastHeader).v[1]),
                                GainHeaderAt(LastHeader).v[7]))))
       => outcome = "UnexpectedEof"

(* C7: a buffer whose entry count is 0 decodes to the empty sequence, with *)
(* no error, whatever follows the count.                                   *)
C7_ZeroCountIsEmptyOk ==
  (Finished /\ Len(buf) >= 4 /\ SubSeq(buf, 1, 4) = <<0, 0, 0, 0>>)
    => outcome = "Ok" /\ returned = <<>>

C7_Witness ==
  Finished /\ Len(buf) > 20 /\ SubSeq(buf, 1, 4) = <<0, 0, 0, 0>> /\ outcome = "Ok"

(* C8: the flags of the k-th record are bit 0 (optional) and bit 1         *)
(* (preview_skip) of the flags word of the k-th recognised header, read    *)
(* off the buffer's bytes; no other bit of the word matters.  The          *)
(* specification's TrimBounds buffer decodes to its one expected record.   *)
FlagsByte(h) == buf[ToNat(h.start) + 12]
ScenarioBuffer ==
  <<0, 0, 0, 1,  0, 0, 0, 6,  0, 0, 0, 0,  0, 0, 0, 1,  0, 0, 0, 16,
    0, 0, 0, 0,  0, 0, 0, 0,  0, 0, 0, 100,  0, 0, 0, 200>>
C8_FlagsAreLowTwoBits ==
  /\ \A k \in 1..Len(ops) :
       LET h == SelectSeq(hist, RecognisedHeader)[k]
       IN /\ ops[k].flags.optional = (FlagsByte(h) % 2 = 1)
          /\ ops[k].flags.preview_skip = ((FlagsByte(h) \div 2) % 2 = 1)
  /\ (Finished /\ buf = ScenarioBuffer)
       => /\ outcome = "Ok"
          /\ returned = << [tag |-> "TrimBounds",
                            flags |-> [optional |-> TRUE, preview_skip |-> FALSE],
                            top |-> W(0), left |-> W(0), bottom |-> W(100),
                            right |-> W(200)] >>

C8_Witness ==
  /\ Finished /\ outcome = "Ok" /\ Len(returned) = 1
  /\ SubSeq(buf, 13, 16) = <<255, 255, 255, 253>>
  /\ returned[1].flags = [optional |-> TRUE, preview_skip |-> FALSE]

(* C9: a record of any of the 14 variants, written as one entry by the     *)
(* schema table with payload_len the size of its payload and flags 0..3,   *)
(* decodes to the one-element sequence holding that record.                *)
RoundTripInput ==
  /\ WellFormedInput
  /\ Len(gen.entries) = 1
  /\ gen.entries[1].known
  /\ gen.entries[1].plain
C9_RoundTrip ==
  (Finished /\ RoundTripInput) => outcome = "Ok" /\ returned = <<gen.entries[1].rec>>

C9_Witness ==
  /\ Finished /\ RoundTripInput /\ outcome = "Ok"
  /\ returned[1].tag = "WarpRectilinear2" /\ Len(returned[1].coefs) = MaxArr

C11_OutcomeIgnoresSpecVersion ==
  (call = 2 /\ Finished)
    => /\ outcome = first.outcome
       /\ returned = first.returned

C11_Witness ==
  /\ call = 2 /\ Finished /\ first.changed
  /\ outcome = "Ok" /\ Len(returned) >= 1

\* area lies inside dim
Inside(a, d) == a.p.x + a.d.w <= d.w /\ a.p.y + a.d.h <= d.h

\* the element of the input at row r, column c (from 0)
At(r, c) == input[r * dim.w + c + 1]

(* C12: crop of an input of dim.w * dim.h elements with an area inside dim *)
(* returns area.d.w * area.d.h elements, element (r, c) of them being the  *)
(* input's element at row area.p.y + r, column area.p.x + c, and leaves    *)
(* the input as it was.                                                    *)
C12_CropReturnsArea ==
  (output.st # "idle" /\ Len(input) = dim.w * dim.h /\ Inside(area, dim))
    => /\ output.st = "ok"
       /\ Len(output.v) = area.d.w * area.d.h
       /\ \A r \in 0..(area.d.h - 1), c \in 0..(area.d.w - 1) :
            output.v[r * area.d.w + c + 1] = At(area.p.y + r, area.p.x + c)
       /\ input = output.given

\* the records pushed once the entries of the first j headers are all accepted
RecCount(j) == Cardinality({k \in 1..j : Recognised(hist[k].id)})

\* the entry of header number j has been through the match and the size check
Settled(j) == j < Len(hist) \/ pc # "match"

(* C13: the size check accepts a decoded entry exactly when the bytes its  *)
(* decoder consumed, cursor offset minus pos_start, are payload_len many,  *)
(* for every u32 payload_len; where pos_start + payload_len is above       *)
(* 2^32 - 1 the entry is refused with the 'Invalid opcode size' error.     *)
(* Stated on every header read: once its entry is settled, its record is   *)
(* among ops if the consumed bytes are payload_len many, and otherwise the *)
(* decode has ended with that error.                                       *)
C13_SizeCheckIsExact ==
  \A j \in 1..Len(hist) :
    (Recognised(hist[j].id) /\ DecodedAt(hist[j]).st = "ok" /\ Settled(j))
    => IF DecodedAt(hist[j]).pos = PayloadEnd(hist[j])
         THEN Len(ops) >= RecCount(j)
         ELSE /\ Len(ops) < RecCount(j)
              /\ Finished /\ outcome = "InvalidOpcodeSize" /\ returned = <<>>

\* the u32 field at offset off of the payload that starts at p
U32At(p, off) == FromBE(Bytes(WAdd(p, W(off)), 4))

\* a variable-length array of a decoded record: its elements, their kind and size in
\* bytes, the payload offset of the first of them, the payload offsets of the count
\* fields its length is computed from, and that length as the decoder computes it
Arr(elems, kind, width, at, fields, len) ==
  [elems |-> elems, kind |-> kind, width |-> width, first |-> at, fields |-> fields,
   len |-> len]

\* the arrays of record rec, decoded from the payload that starts at p, in reading order
ArraysOf(rec, p) ==
  CASE rec.tag = "WarpRectilinear" ->
         << Arr(rec.coefs, "WarpRectilinearCoef", 48, 4, {0}, U32At(p, 0)) >>
    [] rec.tag = "WarpFisheye" ->
         << Arr(rec.coefs, "WarpFisheyeCoef", 32, 4, {0}, U32At(p, 0)) >>
    [] rec.tag = "WarpRectilinear2" ->
         << Arr(rec.coefs, "WarpRectilinear2Coef", 136, 4, {0}, U32At(p, 0)) >>
    [] rec.tag = "FixBadPixelsList" ->
         << Arr(rec.bad_points, "BadPoint", 8, 12, {4}, U32At(p, 4)),
            Arr(rec.bad_rects, "BadRect", 16, 12 + 8 * Len(rec.bad_points), {8},
                U32At(p, 8)) >>
    [] rec.tag = "MapTable" ->
         << Arr(rec.table, "u16", 2, 36, {32}, U32At(p, 32)) >>
    [] rec.tag = "MapPolynomial" ->
         << Arr(rec.coefs, "f64", 8, 36, {32}, WAdd(U32At(p, 32), W(1))) >>
    [] rec.tag = "GainMap" ->
         << Arr(rec.map_gain, "f32", 4, 76, {32, 36, 72},
                GainMapLen(U32At(p, 36), U32At(p, 32), U32At(p, 72), overflow_checks).len) >>
    [] rec.tag \in RowColTags ->
         << Arr(rec.values, "f32", 4, 36, {32}, U32At(p, 32)) >>
    [] OTHER -> <<>>

\* what is decoded where array a of the payload at p has its first element
FirstElemAt(a, p) ==
  IF a.kind \in {"u16", "f32", "f64"} THEN FromBE(Bytes(WAdd(p, W(a.first)), a.width))
  ELSE DecodeElem(a.kind, WAdd(p, W(a.first))).v

\* the arrays of the record decoded at header h
DecodedArrays(h) == ArraysOf(DecodedAt(h).v, HeaderEnd(h))

\* what the u32 just before the first element of a makes the element count
CountJustBefore(a, p, tag) ==
  WAdd(U32At(p, a.first - 4), W(IF tag = "MapPolynomial" THEN 1 ELSE 0))

(* C14, as the specification has it: the element count of every array is   *)
(* the u32 read immediately before the array's first element (plus one for *)
(* MapPolynomial's degree).                                                *)
C14_CountImmediatelyBeforeArray ==
  \A j \in 1..Len(hist) :
    (Recognised(hist[j].id) /\ DecodedAt(hist[j]).st = "ok")
    => \A k \in 1..Len(DecodedArrays(hist[j])) :
         \E a \in {DecodedArrays(hist[j])[k]} :
           /\ a.elems # <<>> => a.elems[1] = FirstElemAt(a, HeaderEnd(hist[j]))
           /\ W(Len(a.elems)) = CountJustBefore(a, HeaderEnd(hist[j]), DecodedAt(hist[j]).v.tag)

(* C14, amended: the element count of every array is computed from count   *)
(* fields of the payload alone, each read before the array's first         *)
(* element, never from the bytes that remain.  The count field is the u32  *)
(* immediately before the first element in every decoder but two:          *)
(* FixBadPixelsList reads num_points and num_rects together, before both   *)
(* arrays, and GainMap takes the u32 product of map_points_h, map_points_v *)
(* and map_planes, of which only map_planes is read just before the gains. *)
C14_CountFieldsBeforeArray ==
  \A j \in 1..Len(hist) :
    (Recognised(hist[j].id) /\ DecodedAt(hist[j]).st = "ok")
    => \A k \in 1..Len(DecodedArrays(hist[j])) :
         \E a \in {DecodedArrays(hist[j])[k]} :
           /\ a.elems # <<>> => a.elems[1] = FirstElemAt(a, HeaderEnd(hist[j]))
           /\ W(Len(a.elems)) = a.len
           /\ \A f \in a.fields : f + 4 <= a.first
           /\ \/ a.fields = {a.first - 4}
              \/ DecodedAt(hist[j]).v.tag = "FixBadPixelsList"
              \/ DecodedAt(hist[j]).v.tag = "GainMap" /\ a.first - 4 \in a.fields

\* a FixBadPixelsList of one point and no rectangle is returned, from a buffer that
\* goes on after its payload
C14_Witness ==
  /\ Finished /\ outcome = "Ok"
  /\ WLess(pos, W(Len(buf)))
  /\ hist # <<>> /\ LastHeader.id = W(5)
  /\ returned # <<>>
  /\ returned[Len(returned)].tag = "FixBadPixelsList"
  /\ Len(returned[Len(returned)].bad_points) = 1
  /\ returned[Len(returned)].bad_rects = <<>>

\* base + each * n
Linear(base, each, n) == WAdd(W(base), WMul(W(each), n))

\* the size in bytes of the schema of tag, for the count fields of the payload at p
SchemaSize(tag, p) ==
  CASE tag = "WarpRectilinear" -> Linear(4 + 16, 48, U32At(p, 0))
    [] tag = "WarpFisheye" -> Linear(4 + 16, 32, U32At(p, 0))
    [] tag = "FixVignetteRadial" -> W(56)
    [] tag = "FixBadPixelsConstant" -> W(8)
    [] tag = "FixBadPixelsList" ->
         WAdd(Linear(12, 8, U32At(p, 4)), WMul(W(16), U32At(p, 8)))
    [] tag = "TrimBounds" -> W(16)
    [] tag = "MapTable" -> Linear(36, 2, U32At(p, 32))
    [] tag = "MapPolynomial" -> Linear(36, 8, WAdd(U32At(p, 32), W(1)))
    [] tag = "GainMap" ->
         Linear(76, 4, WMul(WMul(U32At(p, 36), U32At(p, 32)), U32At(p, 72)))
    [] tag = "WarpRectilinear2" -> Linear(4 + 20, 136, U32At(p, 0))
    [] tag \in RowColTags -> Linear(36, 4, U32At(p, 32))

(* C15: a payload decoder that succeeds leaves the cursor exactly its       *)
(* schema's size after the start of the payload: WarpRectilinear 4+48n+16, *)
(* WarpFisheye 4+32n+16, FixVignetteRadial 56, FixBadPixelsConstant 8,     *)
(* FixBadPixelsList 12+8*num_points+16*num_rects, TrimBounds 16, MapTable  *)
(* 36+2*len, MapPolynomial 36+8*(degree+1), GainMap                        *)
(* 76+4*(map_points_h*map_points_v*map_planes), WarpRectilinear2           *)
(* 4+136n+20, the per-row/column variants 36+4*len.                        *)
C15_DecoderAdvancesBySchemaSize ==
  \A j \in 1..Len(hist) :
    (Recognised(hist[j].id) /\ DecodedAt(hist[j]).st = "ok")
    => DecodedAt(hist[j]).pos
         = WAdd(HeaderEnd(hist[j]), SchemaSize(DecodedAt(hist[j]).v.tag, HeaderEnd(hist[j])))

\* the entry count the buffer declares, N
DeclaredN == FromBE(SubSeq(buf, 1, 4))

\* where the entry of the last header read ends (the count, if none was read)
EndOfEntries == IF hist = <<>> THEN W(4) ELSE PayloadEnd(LastHeader)

\* the input is whole entries written from records (and unknown entries) with true
\* payload lengths, the count declaring the first n of them, and bytes after these
FollowedByBytes(n) ==
  /\ \A j \in 1..Len(gen.entries) : ~gen.entries[j].raw
  /\ \/ gen.dep.kind = "trail" /\ n = Len(gen.entries)
     \/ gen.dep.kind = "count" /\ gen.dep.k = -1 /\ n = Len(gen.entries) - 1 /\ n >= 0
     \/ gen.dep.kind = "count" /\ gen.dep.k = 0 /\ n = 0 /\ Len(gen.entries) > 0

\* the records the first n entries were written from
WrittenAmong(n) ==
  LET es == SelectSeq(SubSeq(gen.entries, 1, n), WrittenFromRecord)
  IN [k \in 1..Len(es) |-> es[k].rec]

(* C16: no header beyond the N-th is read, N being the declared entry      *)
(* count; a successful decode has read exactly N headers and leaves the    *)
(* cursor where the N-th entry ends; bytes that follow the N-th entry      *)
(* cause no error: the decode of N whole entries followed by more bytes    *)
(* returns the records of those N entries.                                 *)
C16_ExactlyCountHeaders ==
  /\ hist # <<>> => WLeq(W(Len(hist)), DeclaredN)
  /\ outcome = "Ok" => W(Len(hist)) = DeclaredN /\ pos = EndOfEntries
  /\ \A n \in 0..MaxEntries :
       (Finished /\ FollowedByBytes(n))
         => outcome = "Ok" /\ returned = WrittenAmong(n) /\ WLess(pos, W(Len(buf)))

\* two entries, the count declaring one: the first entry's record is returned and the
\* second entry is left unread
C16_Witness ==
  /\ Finished /\ outcome = "Ok"
  /\ gen.dep.kind = "count" /\ gen.dep.k = -1 /\ Len(gen.entries) = 2
  /\ Len(hist) = 1 /\ Len(returned) = 1
  /\ WLeq(WAdd(pos, W(16)), W(Len(buf)))

\* the ids of DeltaPerRow, DeltaPerColumn, ScalePerRow, ScalePerColumn
RowColIds == 10..13

\* the flags and payload bytes of header h decoded under id
DecodedAs(h, id) ==
  DecodeOp(DngOpcodeId(W(id)), DngOpcodeFlags_decode(h.flags), HeaderEnd(h),
           overflow_checks)

(* C17: the flags and payload bytes of an entry of id 10, 11, 12 or 13,    *)
(* decoded under each of these four ids, end alike, consume the same bytes *)
(* and, decoded, give records of the same flags, region and values whose   *)
(* tags are the variants the ids name, a different one for each id.        *)
C17_RowColVariantsShareSchema ==
  \A j \in 1..Len(hist) :
    (\E id \in RowColIds : hist[j].id = W(id))
    => \A a, b \in RowColIds :
         \E ra \in {DecodedAs(hist[j], a)}, rb \in {DecodedAs(hist[j], b)} :
           /\ ra.st = rb.st
           /\ ra.pos = rb.pos
           /\ ra.st = "ok" =>
                /\ ra.v.flags = rb.v.flags
                /\ ra.v.region = rb.v.region
                /\ ra.v.values = rb.v.values
                /\ IdOfTag(ra.v.tag) = a
                /\ ra.v.tag = DngOpcodeId(W(a))
                /\ (ra.v.tag = rb.v.tag) = (a = b)
                /\ DOMAIN ra.v = {"tag", "flags", "region", "values"}

\* a ScalePerColumn record with flags set and values is returned
C17_Witness ==
  /\ Finished /\ outcome = "Ok"
  /\ \E k \in 1..Len(returned) :
       /\ returned[k].tag = "ScalePerColumn"
       /\ returned[k].flags.optional
       /\ returned[k].values # <<>>

\* 4 + the sum over the headers j before the k-th of (16 + payload_len_j)
RECURSIVE TileStart(_)
TileStart(k) ==
  IF k = 1 THEN W(4) ELSE WAdd(TileStart(k - 1), WAdd(W(16), hist[k - 1].len))

(* C18: when the decode returns successfully the entries tile the buffer:  *)
(* the header of entry k begins at 4 plus the sum over the earlier entries *)
(* j of (16 + payload_len_j), payload_len_j being the u32 at offset 12 of  *)
(* header j, for recognised and unrecognised entries alike; each record    *)
(* was decoded from exactly the bytes of its entry's declared payload,     *)
(* from the end of its header to the begin of the next entry; and the      *)
(* cursor ends where the last entry does.                                  *)
C18_EntriesTileTheBuffer ==
  outcome = "Ok" =>
    /\ \A k \in 1..Len(hist) :
         /\ hist[k].start = TileStart(k)
         /\ hist[k].len = U32At(hist[k].start, 12)
         /\ Recognised(hist[k].id) =>
              /\ DecodedAt(hist[k]).st = "ok"
              /\ DecodedAt(hist[k]).pos = PayloadEnd(hist[k])
              /\ returned[RecCount(k)] = DecodedAt(hist[k]).v
         /\ k < Len(hist) => PayloadEnd(hist[k]) = hist[k + 1].start
    /\ pos = TileStart(Len(hist) + 1)
    /\ Len(returned) = RecCount(Len(hist))

\* an unrecognised entry with a payload and a recognised one after it, both passed
C18_Witness ==
  /\ Finished /\ outcome = "Ok"
  /\ Len(hist) = 2 /\ Len(returned) = 1
  /\ ~Recognised(hist[1].id) /\ hist[1].len # W(0)
  /\ Recognised(hist[2].id) /\ hist[2].start = WAdd(W(4 + 16), hist[1].len)

\* where the loop iteration under way started: before its header
IterationStart == LastHeader.start

\* a step that completes a loop iteration, of a recognised or a skipped entry
CompletesIteration == pc = "match" /\ pc' = "loop"

(* C19: no step of decode_opcode_list moves the cursor backwards, and a    *)
(* step that completes a loop iteration, of a recognised or of a skipped   *)
(* entry, leaves the cursor at least 16 bytes beyond where the iteration   *)
(* started.                                                                *)
C19_CursorOnlyAdvances ==
  [][/\ WLeq(pos, pos')
     /\ CompletesIteration => WLeq(WAdd(IterationStart, W(16)), pos')]_vars

\* two iterations completed, the second of them 16 bytes long: a skipped entry of
\* payload_len 0
C19_Witness ==
  /\ pc = "loop" /\ Len(hist) = 2
  /\ ~Recognised(LastHeader.id)
  /\ pos = WAdd(IterationStart, W(16))

====
